---------------------------- MODULE Spec2Model ----------------------------
(***************************************************************************)
(* A model of gparse: the Lorentzian Spectrum, the PeakAssigner log        *)
(* parser and the DistanceMatrix (src/gparse/spectrum.py,                  *)
(* src/gparse/matrix.py, src/raman/util.py).                               *)
(*                                                                         *)
(* Every component has its own specification over the same variables:      *)
(*   SpecPA   PeakAssigner.__init__ / make_peaks / SpectralPeak.assign     *)
(*            (SpecPAFair: with the loop of __init__ run to its end)       *)
(*   SpecSp   Spectrum construction, set_width, x_array, as_list,          *)
(*            integral, copy, -, ==                                        *)
(*   SpecLog  DistanceMatrix.from_log_file                                 *)
(*   SpecCsv  DistanceMatrix.from_csv                                      *)
(*   SpecDM   DistanceMatrix >>, -, ==, rms_deviation                      *)
(*   SpecInt  integrate                                                    *)
(* A specification leaves the variables of the other components at their   *)
(* idle values.                                                            *)
(***************************************************************************)
EXTENDS Integers, Sequences, FiniteSets, TLC

VARIABLES
    \* Spectrum (src/gparse/spectrum.py:32)
    frequencies,       \* self.frequencies
    intensities,       \* self.intensities
    lorentzian_width,  \* self.lorentzian_width
    lorentzians,       \* the partials captured by self._fit_function
    sp_state,          \* "new", "ok" (the object exists) or the error raised
    sp_call,           \* the last call on the Spectrum and its arguments
    sp_ret,            \* what that call returned, or the error it raised
    \* PeakAssigner (src/gparse/spectrum.py:267)
    lines,             \* self.lines
    index,             \* self.index, the line cursor (0-based)
    done,              \* self.done
    peaks,             \* self.peaks
    heavy_only,        \* self.heavy_only
    pa_state,          \* "new", "parsing" (inside __init__), "ok" or the error
    pa_turns,          \* the make_peaks calls __init__ has made
    pa_log,            \* the parameters of the log being parsed
    pa_call,           \* the last call on a peak and its arguments
    pa_ret,            \* what that call returned
    \* DistanceMatrix.from_log_file (src/gparse/matrix.py:158)
    log_lines,         \* lines, what readlines() gave
    scan_pos,          \* position of the first loop in lines (0-based)
    split_lines,       \* split_lines
    temp_matrix,       \* temp_matrix
    old_index,         \* old_index
    column_offset,     \* column_offset
    place_pos,         \* position of the second loop in split_lines (0-based)
    fl_state,          \* "new", "scan", "alloc", "place", "ok" or the error
    fl_log,            \* the parameters of the log being parsed
    fl_ret,            \* the DistanceMatrix returned
    \* DistanceMatrix.from_csv (src/gparse/matrix.py:120)
    csv_call,          \* the last from_csv call and its arguments
    csv_ret,           \* what that call returned, or the error it raised
    \* DistanceMatrix objects (src/gparse/matrix.py:14)
    dm_a,              \* a DistanceMatrix: [matrix |-> rows, units |-> string]
    dm_b,              \* another one
    dm_call,           \* the last call on dm_a and its arguments
    dm_ret,            \* what that call returned, or the error it raised
    \* integrate (src/raman/util.py:35)
    int_call,          \* the last integrate call and its arguments
    int_ret            \* what that call returned, or the error it raised

spVars == <<frequencies, intensities, lorentzian_width, lorentzians,
            sp_state, sp_call, sp_ret>>

paVars == <<lines, index, done, peaks, heavy_only, pa_state, pa_turns,
            pa_log, pa_call, pa_ret>>

flVars == <<log_lines, scan_pos, split_lines, temp_matrix, old_index,
            column_offset, place_pos, fl_state, fl_log, fl_ret>>

csvVars == <<csv_call, csv_ret>>

dmVars == <<dm_a, dm_b, dm_call, dm_ret>>

intVars == <<int_call, int_ret>>

\* The variables a component's actions leave alone.
spRest == <<paVars, flVars, csvVars, dmVars, intVars>>

paRest == <<spVars, flVars, csvVars, dmVars, intVars>>

flRest == <<spVars, paVars, csvVars, dmVars, intVars>>

csvRest == <<spVars, paVars, flVars, dmVars, intVars>>

dmRest == <<spVars, paVars, flVars, csvVars, intVars>>

intRest == <<spVars, paVars, flVars, csvVars, dmVars>>

vars == <<spVars, paVars, flVars, csvVars, dmVars, intVars>>

(***************************************************************************)
(* Python floats.  A float is <<m, e>>, the number m * 2^e, in canonical   *)
(* form: m is odd, or the float is <<0, 0>>.  Every operation returns the  *)
(* exact result rounded to the nearest float of PREC significant bits,     *)
(* ties to even, as IEEE-754 arithmetic does.  CPython's float has 53      *)
(* significant bits; the model keeps the arithmetic and takes PREC bits so *)
(* that every intermediate integer fits TLC's 32-bit integers.  Exponents  *)
(* are unbounded (no overflow to inf, no underflow).                       *)
(***************************************************************************)
PREC == 10

Abs(n) == IF n < 0 THEN -n ELSE n

Sgn(n) == IF n < 0 THEN -1 ELSE IF n > 0 THEN 1 ELSE 0

Pow2(k) == 2 ^ k

RECURSIVE BitLen(_)
BitLen(n) == IF n = 0 THEN 0 ELSE 1 + BitLen(n \div 2)

RECURSIVE Canon(_, _)
Canon(m, e) ==
    IF m = 0 THEN <<0, 0>>
    ELSE IF m % 2 = 0 THEN Canon(m \div 2, e + 1)
    ELSE <<m, e>>

\* n * 2^e rounded to PREC bits, ties to even.
Round(n, e) ==
    LET a == Abs(n)
        k == BitLen(a) - PREC
    IN  IF k <= 0 THEN Canon(n, e)
        ELSE LET q    == a \div Pow2(k)
                 r    == a % Pow2(k)
                 half == Pow2(k - 1)
                 up   == r > half \/ (r = half /\ q % 2 = 1)
             IN  Canon(Sgn(n) * (IF up THEN q + 1 ELSE q), e + k)

\* (n / d) * 2^e rounded to PREC bits, for d > 0: the quotient is taken with
\* two guard bits and a sticky bit for the remainder.
RoundRat(n, d, e) ==
    IF n = 0 THEN <<0, 0>>
    ELSE LET a  == Abs(n)
             s0 == PREC + 2 + BitLen(d) - BitLen(a)
             s  == IF s0 < 0 THEN 0 ELSE s0
             q  == (a * Pow2(s)) \div d
             r  == (a * Pow2(s)) % d
         IN  Round(Sgn(n) * (2 * q + (IF r = 0 THEN 0 ELSE 1)), e - s - 1)

\* The float of a Python int (exact when it has at most PREC bits).
IntF(i) == Round(i, 0)

FZero == <<0, 0>>

FNeg(a) == <<-a[1], a[2]>>

\* a with its significand widened to exactly PREC bits: <<M, E>>, not canonical.
Widen(a) ==
    LET s == PREC - BitLen(Abs(a[1]))
    IN  <<a[1] * Pow2(s), a[2] - s>>

FAdd(a, b) ==
    IF a[1] = 0 THEN b
    ELSE IF b[1] = 0 THEN a
    ELSE LET wa == Widen(a)
             wb == Widen(b)
             hi == IF wa[2] >= wb[2] THEN wa ELSE wb
             lo == IF wa[2] >= wb[2] THEN wb ELSE wa
             d  == hi[2] - lo[2]
         IN  IF d > PREC + 3
             THEN \* lo is below the guard bits of hi: it only breaks ties.
                  Round(8 * hi[1] + Sgn(lo[1]), hi[2] - 3)
             ELSE Round(hi[1] * Pow2(d) + lo[1], lo[2])

FSub(a, b) == FAdd(a, FNeg(b))

FMul(a, b) == Round(a[1] * b[1], a[2] + b[2])

\* b is not zero.
FDiv(a, b) == RoundRat(a[1] * Sgn(b[1]), Abs(b[1]), a[2] - b[2])

RECURSIVE ISqrtIter(_, _, _)
ISqrtIter(n, lo, hi) ==
    \* the largest r in lo..hi with r*r <= n, given lo*lo <= n < (hi+1)^2
    IF lo = hi THEN lo
    ELSE LET mid == (lo + hi + 1) \div 2
         IN  IF mid * mid <= n THEN ISqrtIter(n, mid, hi)
             ELSE ISqrtIter(n, lo, mid - 1)

ISqrt(n) == ISqrtIter(n, 0, Pow2((BitLen(n) + 1) \div 2))

\* math.sqrt of a float >= 0.
FSqrt(a) ==
    IF a[1] = 0 THEN FZero
    ELSE LET w  == Widen(a)
             s  == IF (w[2] - (PREC + 2)) % 2 = 0 THEN PREC + 2 ELSE PREC + 3
             n  == w[1] * Pow2(s)
             r  == ISqrt(n)
         IN  Round(2 * r + (IF r * r = n THEN 0 ELSE 1), ((w[2] - s) \div 2) - 1)

FLt(a, b) == FSub(a, b)[1] < 0

FLe(a, b) == FSub(a, b)[1] <= 0

FAbs(a) == <<Abs(a[1]), a[2]>>

\* x ** 2 for a float x.
FSquare(a) == FMul(a, a)


(***************************************************************************)
(* Text.  A token is what str.split() or str.split(',') yields:            *)
(*   [k |-> "int", n |-> 12]             the numeral "12"                  *)
(*   [k |-> "dec", n |-> 125, d |-> 100] the numeral "1.25" (n / d,        *)
(*                                       d a power of ten)                 *)
(*   [k |-> "upper"]                     one capital letter, as "C"        *)
(*   [k |-> "word"]                      other text that float() rejects   *)
(*   [k |-> "empty"]                     the empty string                  *)
(***************************************************************************)
TInt(n) == [k |-> "int", n |-> n]

TDec(n, d) == [k |-> "dec", n |-> n, d |-> d]

TUpper == [k |-> "upper"]

TWord == [k |-> "word"]

TEmpty == [k |-> "empty"]

\* float(token), for a token float() accepts.
ParseFloat(tok) ==
    IF tok.k = "int" THEN IntF(tok.n) ELSE RoundRat(tok.n, tok.d, 0)

is_numeric(tok) == tok.k \in {"int", "dec"}

\* [f(s[1]), ..., f(s[n])]
MapSeq(f(_), s) == [i \in 1..Len(s) |-> f(s[i])]

RECURSIVE FilterSeq(_, _)
FilterSeq(p(_), s) ==
    IF s = <<>> THEN <<>>
    ELSE (IF p(Head(s)) THEN <<Head(s)>> ELSE <<>>) \o FilterSeq(p, Tail(s))

\* util.flatten: the sub-sequences concatenated in order.  The module that
\* defines it for gparse is not among the sources; this follows its
\* documented behaviour and test (src/test/gparsetest.py:38).
RECURSIVE flatten(_)
flatten(l) == IF l = <<>> THEN <<>> ELSE Head(l) \o flatten(Tail(l))

\* What a call yields: the value it returns, or the error it raises.
Ok(v) == [ok |-> TRUE, v |-> v]

Raised(err) == [ok |-> FALSE, v |-> err]

\* linspace without the test `start >= end`.
linspaceAnyRange(start, end, number_of_points) ==
    IF number_of_points < 2 THEN Raised("ValueError")
    ELSE LET interval == FDiv(FSub(end, start), IntF(number_of_points - 1))
         IN  Ok([i \in 1..number_of_points |->
                    FAdd(start, FMul(interval, IntF(i - 1)))])

linspace(start, end, number_of_points) ==
    IF ~FLt(start, end) THEN Raised("ValueError")
    ELSE IF number_of_points < 2 THEN Raised("ValueError")
    ELSE LET interval == FDiv(FSub(end, start), IntF(number_of_points - 1))
         IN  Ok([i \in 1..number_of_points |->
                    FAdd(start, FMul(interval, IntF(i - 1)))])

RECURSIVE IntegrateLoopToEnd(_, _, _, _)
\* The loop with the bound len(x_array) - 1: the last interval is summed too.
IntegrateLoopToEnd(xs, ys, i, integral) ==
    IF i < Len(xs) - 1
    THEN LET average  == FDiv(FAdd(ys[i + 1], ys[i + 2]), IntF(2))
             interval == FSub(xs[i + 2], xs[i + 1])
         IN  IntegrateLoopToEnd(xs, ys, i + 1,
                                FAdd(integral, FMul(average, interval)))
    ELSE integral

\* integrate summing every interval.
integrateToEnd(xs, ys) ==
    IF Len(xs) # Len(ys) THEN Raised("AssertionError")
    ELSE Ok(IntegrateLoopToEnd(xs, ys, 0, FZero))

RECURSIVE IntegrateLoop(_, _, _, _)
\* while i < len(x_array) - 2: ...; i += 1   (i is 0-based, as in the source)
IntegrateLoop(xs, ys, i, integral) ==
    IF i < Len(xs) - 2
    THEN LET average  == FDiv(FAdd(ys[i + 1], ys[i + 2]), IntF(2))
             interval == FSub(xs[i + 2], xs[i + 1])
         IN  IntegrateLoop(xs, ys, i + 1,
                           FAdd(integral, FMul(average, interval)))
    ELSE integral

\* integrate(x_array, y_array)
integrate(xs, ys) ==
    IF Len(xs) # Len(ys) THEN Raised("AssertionError")
    ELSE Ok(IntegrateLoop(xs, ys, 0, FZero))

(***************************************************************************)
(* Log files.  A line of a Gaussian log is                                 *)
(*   [tag |-> ..., indent |-> ..., toks |-> ...]                           *)
(* tag names the fixed text of the line, indent counts its leading blanks  *)
(* and toks is line.split().  The substring tests of the parsers read the  *)
(* tag.                                                                    *)
(***************************************************************************)
Line(tag, indent, toks) == [tag |-> tag, indent |-> indent, toks |-> toks]

\* 'and normal coordinates:' in line
HasAnchor(line) == line.tag = "anchor"

\* 'Atom' in line
HasAtom(line) == line.tag = "atomhdr"

\* line.startswith('        ')
StartsWith8(line) == line.indent >= 8

\* line is '\n': CPython keeps one object per one-character string, so the
\* identity test holds exactly for the line that is only a line break.
IsNewline(line) == line.tag = "blank"

\* 'Frequencies' in line, 'Raman Activ' in line, 'IR Inten' in line
HasFrequencies(line) == line.tag = "freq"

HasRamanActiv(line) == line.tag = "raman"

HasIRInten(line) == line.tag = "irinten"

\* The bounds of the generated logs.
MaxBlocks == 2

MaxAtoms == 2

MaxBlockSize == 3

\* The property rows of a block, in the order the vendor prints them.
PropTags == <<"freq", "redmass", "frc", "irinten", "raman", "depolp", "depolu">>

\* The displacement triples (in hundredths) the generated atom rows draw from.
Triples == << <<0, 0, 0>>, <<0, 0, 5>>, <<1, 0, 0>>, <<0, -1, 2>>,
              <<1, 1, 0>>, <<-2, 0, 1>>, <<0, 2, 0>> >>

\* The ordinal of the i-th peak of block b when every earlier block has
\* sizes[c] peaks.
RECURSIVE PeaksBefore(_, _)
PeaksBefore(sizes, b) ==
    IF b <= 1 THEN 0 ELSE sizes[b - 1] + PeaksBefore(sizes, b - 1)

TripleAt(seed, b, r, i) == Triples[((seed + 3 * b + 2 * r + i) % Len(Triples)) + 1]

HeaderLine(sizes, b) ==
    Line("header", 21, [i \in 1..sizes[b] |-> TInt(PeaksBefore(sizes, b) + i)])

SepLine(sizes, b) == Line("sep", 21, [i \in 1..sizes[b] |-> TUpper])

\* The p-th property row of block b: two words of label, then one value a peak.
PropLine(sizes, b, p) ==
    Line(PropTags[p], 1,
         <<TWord, TWord>> \o
         [i \in 1..sizes[b] |-> TDec(100 * p + 10 * (PeaksBefore(sizes, b) + i) + 5, 10)])

\* The property row that holds the IR intensities.
IrRow == CHOOSE p \in 1..Len(PropTags) : PropTags[p] = "irinten"

AtomHeaderLine == Line("atomhdr", 2, <<TWord, TWord, TWord, TWord, TWord>>)

AtomLine(sizes, elems, seed, b, r) ==
    Line("atomrow", 5,
         <<TInt(r), TInt(elems[r])>> \o
         flatten([i \in 1..sizes[b] |->
                    [a \in 1..3 |-> TDec(TripleAt(seed, b, r, i)[a], 100)]]))

BlankLine == Line("blank", 0, <<>>)

\* What a log can lack: the 'and normal coordinates:' line, the blank line
\* after the last block (the file ends there), the 'Atom' header of the last
\* block or of the first of several blocks, or the Raman rows (a calculation
\* without Raman activities).
Defects == {"none", "noanchor", "noblank", "noatomhdr", "noatomhdr1", "noraman"}

\* Block b of a log of n blocks lacks its 'Atom' header.
LacksAtomHeader(defect, b, n) ==
    \/ defect = "noatomhdr" /\ b = n
    \/ defect = "noatomhdr1" /\ b = 1 /\ n > 1

BlockLines(sizes, natoms, elems, seed, defect, b) ==
    <<HeaderLine(sizes, b), SepLine(sizes, b)>> \o
    [p \in 1..(IF defect = "noraman" THEN 4 ELSE 7) |->
        IF defect = "ramaneqir" /\ PropTags[p] = "raman"
        THEN [PropLine(sizes, b, IrRow) EXCEPT !.tag = "raman"]
        ELSE PropLine(sizes, b, p)] \o
    (IF LacksAtomHeader(defect, b, Len(sizes)) THEN <<>> ELSE <<AtomHeaderLine>>) \o
    [r \in 1..natoms |-> AtomLine(sizes, elems, seed, b, r)]

\* The frequency section of a log: sizes[b] peaks in block b, natoms atom rows
\* in every block, elems[r] the element of atom r.
LogFile(sizes, natoms, elems, seed, defect) ==
    <<Line("other", 1, <<TWord, TWord>>)>> \o
    (IF defect = "noanchor" THEN <<>> ELSE <<Line("anchor", 1, <<TWord, TWord>>)>>) \o
    flatten([b \in 1..Len(sizes) |->
                BlockLines(sizes, natoms, elems, seed, defect, b)]) \o
    (IF defect = "noblank" THEN <<>>
     ELSE <<BlankLine, Line("other", 1, <<TWord>>)>>)

SeqsUpTo(S, n) == UNION {[1..k -> S] : k \in 0..n}

\* The element codes of the atom rows of a generated log, by atom number.
ElemPatterns ==
    { [r \in 1..MaxAtoms |-> 6],
      [r \in 1..MaxAtoms |-> IF r = 1 THEN 1 ELSE 6],
      [r \in 1..MaxAtoms |-> IF r = 1 THEN 0 ELSE 1] }

\* The parameters of the generated logs: blocks of one peak and of
\* MaxBlockSize peaks in every order; blocks of three peaks with every number
\* of atom rows; and the logs that lack something.
LogParams ==
    [sizes  : SeqsUpTo({1, MaxBlockSize}, MaxBlocks) \ {<<>>},
     natoms : {MaxAtoms},
     elems  : {[r \in 1..MaxAtoms |-> IF r = 1 THEN 1 ELSE 6]},
     seed   : {0},
     defect : {"none"}]
    \cup
    [sizes  : {[b \in 1..n |-> 3] : n \in 1..MaxBlocks},
     natoms : 0..MaxAtoms,
     elems  : ElemPatterns,
     seed   : {0, 1},
     defect : {"none"}]
    \cup
    [sizes  : {[b \in 1..MaxBlocks |-> 3]},
     natoms : {MaxAtoms},
     elems  : {[r \in 1..MaxAtoms |-> 6]},
     seed   : {0},
     defect : Defects]

LogOf(prm) == LogFile(prm.sizes, prm.natoms, prm.elems, prm.seed, prm.defect)

(***************************************************************************)
(* Spectrum                                                                *)
(***************************************************************************)
\* The default number of sample points.  The source sets 5000; the model
\* samples with a small default so that TLC enumerates the sampled lists.
NUMBER_OF_POINTS == 3

LORENTZIAN_WIDTH == RoundRat(33, 10, 0)

lorentzian(x_value, amplitude, center, width) ==
    LET numerator   == FSquare(width)
        denominator == FAdd(FSquare(FSub(x_value, center)), FSquare(width))
    IN  FMul(amplitude, FDiv(numerator, denominator))

\* sum(list) of floats: a left fold from 0.
RECURSIVE FSumFrom(_, _)
FSumFrom(acc, s) ==
    IF s = <<>> THEN acc ELSE FSumFrom(FAdd(acc, Head(s)), Tail(s))

FSum(s) == FSumFrom(FZero, s)

RECURSIVE FMin(_)
FMin(s) ==
    IF Len(s) = 1 THEN s[1]
    ELSE LET m == FMin(Tail(s)) IN IF FLt(m, s[1]) THEN m ELSE s[1]

RECURSIVE FMax(_)
FMax(s) ==
    IF Len(s) = 1 THEN s[1]
    ELSE LET m == FMax(Tail(s)) IN IF FLt(s[1], m) THEN m ELSE s[1]

\* The partials Spectrum.__init__ builds: amplitude, center and width are
\* bound when the object is constructed.
MakeLorentzians(freqs, intens, width) ==
    [i \in 1..(IF Len(freqs) < Len(intens) THEN Len(freqs) ELSE Len(intens)) |->
        [amplitude |-> intens[i], center |-> freqs[i], width |-> width]]

\* self._fit_function(x)
EvalFit(lors, x) ==
    FSum([i \in 1..Len(lors) |->
            lorentzian(x, lors[i].amplitude, lors[i].center, lors[i].width)])

fit_function(x) == EvalFit(lorentzians, x)

\* Spectrum.__init__ without the check for an empty spectrum.
SpectrumInitNoEmptyCheck(freqs, intens, width) ==
    IF Len(freqs) # Len(intens) THEN Raised("ValueError")
    ELSE Ok([frequencies |-> freqs, intensities |-> intens,
             lorentzian_width |-> width,
             lorentzians |-> MakeLorentzians(freqs, intens, width)])

\* Spectrum.__init__: the fields of the new object, or the error raised.
SpectrumInit(freqs, intens, width) ==
    IF Len(freqs) # Len(intens) THEN Raised("ValueError")
    ELSE IF Len(freqs) < 1 THEN Raised("ValueError")
    ELSE Ok([frequencies |-> freqs, intensities |-> intens,
             lorentzian_width |-> width,
             lorentzians |-> MakeLorentzians(freqs, intens, width)])

\* x_array(x_min, x_max, points): x_min and x_max are computed and not used.
x_array(x_min, x_max, points) ==
    IF frequencies = <<>> THEN Raised("ValueError")  \* min() of an empty list
    ELSE linspace(FMin(frequencies), FMax(frequencies), points)

\* as_list(points): the argument is passed on as x_array's first positional
\* parameter, x_min; x_array's points keeps its default.
as_list(points) ==
    LET xs == x_array(points, "None", NUMBER_OF_POINTS)
    IN  IF xs.ok THEN Ok(MapSeq(fit_function, xs.v)) ELSE xs

\* The integral property: integrate(self.x_array(points), self.as_list(points))
\* with points at its default; both calls bind points to their first
\* positional parameter.
integral ==
    LET xs == x_array(NUMBER_OF_POINTS, "None", NUMBER_OF_POINTS)
        ys == as_list(NUMBER_OF_POINTS)
    IN  IF ~xs.ok THEN xs
        ELSE IF ~ys.ok THEN ys
        ELSE integrate(xs.v, ys.v)

\* The inputs of the Spectrum calls.
MaxModes == 2

MaxPoints == 4

MaxCsvLines == 2

FreqVals == {IntF(0), RoundRat(25, 10, 0)}

IntensVals == {IntF(1), IntF(2)}

Widths == {IntF(1), LORENTZIAN_WIDTH}

ProbeXs == {IntF(0), IntF(2)}

\* One point (linspace refuses it), two, and the most.
PointArgs == {1, 2, MaxPoints}

CsvPaths == {"test_spectrum.csv", "test_matrix.csv"}

Paths == CsvPaths \cup {"ramantest.py"}

\* csv_file.endswith('.csv')
EndsWithCsv(path) == path \in CsvPaths

\* The lines of a spectrum .csv file, each split at its commas.
SpCsvLines ==
    { <<TDec(10, 10), TDec(20, 10)>>, <<TInt(3), TInt(1)>>,
      <<TWord, TInt(1)>>, <<TDec(10, 10)>>, <<TDec(5, 10), TInt(2), TInt(7)>> }

SpectrumTypes == {"r", "raman", "ir", "infrared", "uv"}

\* The logs from_log_file is given: with and without Raman rows, and with
\* Raman activities that equal the IR intensities.
SpLogParams ==
    [sizes  : SeqsUpTo({1, MaxBlockSize}, MaxBlocks) \ {<<>>},
     natoms : {1},
     elems  : {[r \in 1..MaxAtoms |-> 6]},
     seed   : {0},
     defect : {"none", "noraman", "ramaneqir"}]

RECURSIVE CsvPairs(_)
\* The (frequency, intensity) pairs of the text from_csv keeps.
CsvPairs(text) ==
    IF text = <<>> THEN <<>>
    ELSE LET line == Head(text)
         IN  (IF Len(line) > 1 /\ is_numeric(line[1]) /\ is_numeric(line[2])
              THEN << <<ParseFloat(line[1]), ParseFloat(line[2])>> >>
              ELSE <<>>) \o CsvPairs(Tail(text))

\* __eq__ that compares the widths as well.
SpectrumEqWithWidth(self, other) ==
    IF other.kind # "Spectrum" THEN FALSE
    ELSE /\ self.frequencies = other.frequencies
         /\ self.intensities = other.intensities
         /\ self.lorentzian_width = other.lorentzian_width

\* Spectrum.__eq__(self, other)
SpectrumEq(self, other) ==
    IF other.kind # "Spectrum" THEN FALSE
    ELSE /\ self.frequencies = other.frequencies
         /\ self.intensities = other.intensities

\* Spectrum.from_csv(csv_file, width)
SpectrumFromCsv(path, text, width) ==
    IF ~EndsWithCsv(path) THEN Raised("ValueError")
    ELSE LET pairs == CsvPairs(text)
         IN  SpectrumInit([i \in 1..Len(pairs) |-> pairs[i][1]],
                          [i \in 1..Len(pairs) |-> pairs[i][2]], width)

\* _parse_line(line): the floats of the numeric tokens of the line.
ParseLine(line) == MapSeq(ParseFloat, FilterSeq(is_numeric, line.toks))

\* Spectrum.from_log_file(filename, type, width)
SpectrumFromLogFile(text, type, width) ==
    LET freqs == flatten(MapSeq(ParseLine, FilterSeq(HasFrequencies, text)))
    IN  IF type \in {"r", "raman"}
        THEN SpectrumInit(freqs,
                 flatten(MapSeq(ParseLine, FilterSeq(HasRamanActiv, text))), width)
        ELSE IF type \in {"ir", "infrared"}
        THEN SpectrumInit(freqs,
                 flatten(MapSeq(ParseLine, FilterSeq(HasIRInten, text))), width)
        ELSE Raised("ValueError")

\* The object a constructor call leaves: its fields when it returns, no
\* object when it raises.
SpInstall(r) ==
    IF r.ok
    THEN /\ frequencies' = r.v.frequencies
         /\ intensities' = r.v.intensities
         /\ lorentzian_width' = r.v.lorentzian_width
         /\ lorentzians' = r.v.lorentzians
         /\ sp_state' = "ok"
         /\ sp_ret' = Ok("Spectrum")
    ELSE /\ UNCHANGED <<frequencies, intensities, lorentzian_width, lorentzians>>
         /\ sp_state' = r.v
         /\ sp_ret' = r

SpFields == <<frequencies, intensities, lorentzian_width, lorentzians, sp_state>>

SpNew ==
    /\ sp_state = "new"
    /\ \E freqs \in SeqsUpTo(FreqVals, MaxModes),
          intens \in SeqsUpTo(IntensVals, MaxModes), width \in Widths :
          /\ sp_call' = [op |-> "init", frequencies |-> freqs,
                         intensities |-> intens, width |-> width]
          /\ SpInstall(SpectrumInit(freqs, intens, width))
    /\ UNCHANGED spRest

SpFromCsv ==
    /\ sp_state = "new"
    /\ \E path \in Paths, text \in SeqsUpTo(SpCsvLines, MaxCsvLines),
          width \in Widths :
          /\ sp_call' = [op |-> "from_csv", path |-> path, text |-> text,
                         width |-> width]
          /\ SpInstall(SpectrumFromCsv(path, text, width))
    /\ UNCHANGED spRest

SpFromLogFile ==
    /\ sp_state = "new"
    /\ \E prm \in SpLogParams, type \in SpectrumTypes :
          /\ sp_call' = [op |-> "from_log_file", log |-> prm, type |-> type]
          /\ SpInstall(SpectrumFromLogFile(LogOf(prm), type, LORENTZIAN_WIDTH))
    /\ UNCHANGED spRest

\* copy(): the object under observation becomes the copy.
SpCopy ==
    /\ sp_state = "ok"
    /\ sp_call' = [op |-> "copy"]
    /\ SpInstall(SpectrumInit(frequencies, intensities, lorentzian_width))
    /\ UNCHANGED spRest

SpSetWidth ==
    /\ sp_state = "ok"
    /\ \E width \in Widths :
          /\ lorentzian_width' = width
          /\ sp_call' = [op |-> "set_width", width |-> width]
    /\ sp_ret' = Ok("None")
    /\ UNCHANGED <<frequencies, intensities, lorentzians, sp_state>>
    /\ UNCHANGED spRest

SpFitFunction ==
    /\ sp_state = "ok"
    /\ \E x \in ProbeXs :
          /\ sp_call' = [op |-> "fit_function", x |-> x]
          /\ sp_ret' = Ok(fit_function(x))
    /\ UNCHANGED SpFields
    /\ UNCHANGED spRest

SpXArray ==
    /\ sp_state = "ok"
    /\ \E points \in PointArgs :
          /\ sp_call' = [op |-> "x_array", points |-> points]
          /\ sp_ret' = x_array("None", "None", points)
    /\ UNCHANGED SpFields
    /\ UNCHANGED spRest

SpAsList ==
    /\ sp_state = "ok"
    /\ \E points \in PointArgs :
          /\ sp_call' = [op |-> "as_list", points |-> points]
          /\ sp_ret' = as_list(points)
    /\ UNCHANGED SpFields
    /\ UNCHANGED spRest

\* (self - other)(x), other a copy of self.
SpSub ==
    /\ sp_state = "ok"
    /\ \E x \in ProbeXs :
          /\ sp_call' = [op |-> "sub", x |-> x]
          /\ sp_ret' = Ok(FSub(fit_function(x),
                   EvalFit(MakeLorentzians(frequencies, intensities,
                                           lorentzian_width), x)))
    /\ UNCHANGED SpFields
    /\ UNCHANGED spRest

\* The object under observation, as an operand.
Self == [kind |-> "Spectrum", frequencies |-> frequencies,
         intensities |-> intensities, lorentzian_width |-> lorentzian_width]

\* A Spectrum with the fields given, as an operand.
Operand(freqs, intens, width) ==
    [kind |-> "Spectrum", frequencies |-> freqs, intensities |-> intens,
     lorentzian_width |-> width]

\* The operands self is compared with: Spectrum objects with the lists of
\* self and every width, with one frequency or one intensity of another
\* value, with the last mode left out, and values that are no Spectrum.
OtherSpectra ==
    {Operand(frequencies, intensities, w) : w \in Widths}
    \cup {Operand([frequencies EXCEPT ![1] = v], intensities, lorentzian_width) :
              v \in FreqVals}
    \cup {Operand(frequencies, [intensities EXCEPT ![1] = v], lorentzian_width) :
              v \in IntensVals}
    \cup (IF Len(frequencies) < 2 THEN {}
          ELSE {Operand(SubSeq(frequencies, 1, Len(frequencies) - 1),
                        SubSeq(intensities, 1, Len(intensities) - 1),
                        lorentzian_width)})
    \cup {[kind |-> "tuple"], [kind |-> "None"]}

\* self == other
SpEq ==
    /\ sp_state = "ok"
    /\ \E other \in OtherSpectra :
          /\ sp_call' = [op |-> "eq", other |-> other]
          /\ sp_ret' = Ok(SpectrumEq(Self, other))
    /\ UNCHANGED SpFields
    /\ UNCHANGED spRest

\* The type from_log_file reads the other intensities with.
OtherType(type) == IF type \in {"r", "raman"} THEN "ir" ELSE "raman"

\* self == Spectrum.from_log_file(the same log, the other type), self fresh
\* from from_log_file.
SpEqOtherType ==
    /\ sp_state = "ok"
    /\ sp_call.op = "from_log_file"
    /\ LET r == SpectrumFromLogFile(LogOf(sp_call.log), OtherType(sp_call.type),
                                    LORENTZIAN_WIDTH)
       IN  /\ r.ok
           /\ sp_call' = [op |-> "eq_other_type",
                          other |-> Operand(r.v.frequencies, r.v.intensities,
                                            r.v.lorentzian_width)]
           /\ sp_ret' = Ok(SpectrumEq(Self, sp_call'.other))
    /\ UNCHANGED SpFields
    /\ UNCHANGED spRest

\* The explicit (x_min, x_max) pairs x_array is called with.
XRanges == {<<IntF(0), RoundRat(25, 10, 0)>>, <<RoundRat(25, 10, 0), IntF(2)>>}

\* x_array(x_min, x_max) with an explicit range; points has its default.
SpXArrayRange ==
    /\ sp_state = "ok"
    /\ \E range \in XRanges :
          /\ sp_call' = [op |-> "x_array", x_min |-> range[1],
                         x_max |-> range[2], points |-> NUMBER_OF_POINTS]
          /\ sp_ret' = x_array(range[1], range[2], NUMBER_OF_POINTS)
    /\ UNCHANGED SpFields
    /\ UNCHANGED spRest

\* self.integral
SpIntegral ==
    /\ sp_state = "ok"
    /\ sp_call' = [op |-> "integral"]
    /\ sp_ret' = integral
    /\ UNCHANGED SpFields
    /\ UNCHANGED spRest

InitSp ==
    /\ frequencies = <<>>
    /\ intensities = <<>>
    /\ lorentzian_width = LORENTZIAN_WIDTH
    /\ lorentzians = <<>>
    /\ sp_state = "new"
    /\ sp_call = [op |-> "none"]
    /\ sp_ret = Ok("None")

NextSp ==
    \/ SpNew
    \/ SpFromCsv
    \/ SpFromLogFile
    \/ SpCopy
    \/ SpSetWidth
    \/ SpFitFunction
    \/ SpXArray
    \/ SpAsList
    \/ SpSub
    \/ SpEq
    \/ SpEqOtherType
    \/ SpXArrayRange
    \/ SpIntegral



(***************************************************************************)
(* SpectralPeak, Atom and PeakAssigner                                     *)
(***************************************************************************)
\* SpectralPeak(*props): eight positional arguments, or TypeError.
SpectralPeakInit(props) ==
    IF Len(props) # 8 THEN Raised("TypeError")
    ELSE Ok([number |-> props[1], frequency |-> props[2],
             reduced_mass |-> props[3], frc_const |-> props[4],
             ir_intensity |-> props[5], raman_activity |-> props[6],
             depolar_p |-> props[7], depolar_u |-> props[8], atoms |-> <<>>])

\* Atom(number, element, x, y, z)
AtomInit(number, element, x, y, z) ==
    [number |-> number, element |-> element, x |-> x, y |-> y, z |-> z,
     eigen_sum |-> FSqrt(FAdd(FAdd(FSquare(x), FSquare(y)), FSquare(x)))]

RECURSIVE InsertByEigenSum(_, _)
\* s with atom a put behind every atom whose eigen_sum is not greater.
InsertByEigenSum(a, s) ==
    IF s = <<>> THEN <<a>>
    ELSE IF FLt(a.eigen_sum, Head(s).eigen_sum) THEN <<a>> \o s
    ELSE <<Head(s)>> \o InsertByEigenSum(a, Tail(s))

RECURSIVE SortedByEigenSum(_)
\* sorted(atoms, key=lambda x: x.eigen_sum): ascending and stable.
SortedByEigenSum(atoms) ==
    IF atoms = <<>> THEN <<>>
    ELSE InsertByEigenSum(atoms[Len(atoms)],
                          SortedByEigenSum(SubSeq(atoms, 1, Len(atoms) - 1)))

Reverse(s) == [i \in 1..Len(s) |-> s[Len(s) + 1 - i]]

\* The filter of assign.
Assignable(a, heavy) ==
    a.eigen_sum # FZero /\ (a.element > 1 \/ heavy = FALSE)

\* assign without the [::-1].
assignAscending(peak, heavy) ==
    LET Keep(a) == Assignable(a, heavy)
    IN  FilterSeq(Keep, SortedByEigenSum(peak.atoms))

\* SpectralPeak.assign(heavy_only)
assign(peak, heavy) ==
    LET Keep(a) == Assignable(a, heavy)
    IN  FilterSeq(Keep, Reverse(SortedByEigenSum(peak.atoms)))

\* The first line of PeakAssigner.__init__'s scan that holds the anchor:
\* the cursor is set behind it, or stays 0 when no line holds it.
RECURSIVE Seek(_, _)
Seek(ls, i) ==
    IF i >= Len(ls) THEN 0
    ELSE IF HasAnchor(ls[i + 1]) THEN i + 1
    ELSE Seek(ls, i + 1)

\* [int(el) for el in line.split()]
HeaderInts(line) ==
    IF \A t \in 1..Len(line.toks) : line.toks[t].k = "int"
    THEN Ok([t \in 1..Len(line.toks) |-> line.toks[t].n])
    ELSE Raised("ValueError")

\* PeakAssigner.parse_floats(line)
parse_floats(line) == MapSeq(ParseFloat, FilterSeq(is_numeric, line.toks))

\* self.index += 1 in place of self.index += 2 behind the header.
SkipHeaderOnly(idx) == idx + 1

\* self.index += 2: the header and the separator line behind it.
SkipHeader(idx) == idx + 2

RECURSIVE PropLoop(_, _, _)
\* The loop over the property rows, up to the line that holds 'Atom'.
PropLoop(ls, idx, props) ==
    IF idx >= Len(ls) THEN [err |-> "IndexError", index |-> idx, props |-> props]
    ELSE IF HasAtom(ls[idx + 1]) THEN [err |-> "none", index |-> idx, props |-> props]
    ELSE PropLoop(ls, idx + 1, Append(props, parse_floats(ls[idx + 1])))

RECURSIVE MinLen(_)
MinLen(rows) ==
    IF Len(rows) = 1 THEN Len(rows[1])
    ELSE LET m == MinLen(Tail(rows))
         IN  IF Len(rows[1]) < m THEN Len(rows[1]) ELSE m

\* list(zip(*rows)), for at least one row.
Zip(rows) == [i \in 1..MinLen(rows) |-> [r \in 1..Len(rows) |-> rows[r][i]]]

RECURSIVE MakeSpectralPeaks(_, _)
\* for props in prop_zip: self.peaks.append(SpectralPeak(*props))
MakeSpectralPeaks(prop_zip, pks) ==
    IF prop_zip = <<>> THEN Ok(pks)
    ELSE LET p == SpectralPeakInit(Head(prop_zip))
         IN  IF p.ok THEN MakeSpectralPeaks(Tail(prop_zip), Append(pks, p.v))
             ELSE p

\* self.peaks[-(i + 1)]: the offset taken from the wrong end of the block.
PeakIndexFromEnd(n, b, i) == n - i

\* self.peaks[-(len(prop_zip) - i)], as a 1-based position among n peaks.
PeakIndex(n, b, i) == n - (b - i) + 1

RECURSIVE AtomCols(_, _, _, _, _, _)
\* for i in range(len(prop_zip)): the i-th triple of the row goes to a peak.
AtomCols(toks, number, element, b, i, pks) ==
    IF i >= b THEN Ok(pks)
    ELSE IF Len(toks) < 3 + 3 * i THEN Raised("IndexError")
    ELSE IF ~is_numeric(toks[3 + 3 * i]) THEN Raised("ValueError")
    ELSE IF Len(toks) < 4 + 3 * i THEN Raised("IndexError")
    ELSE IF ~is_numeric(toks[4 + 3 * i]) THEN Raised("ValueError")
    ELSE IF Len(toks) < 5 + 3 * i THEN Raised("IndexError")
    ELSE IF ~is_numeric(toks[5 + 3 * i]) THEN Raised("ValueError")
    ELSE LET a == AtomInit(number, element, ParseFloat(toks[3 + 3 * i]),
                           ParseFloat(toks[4 + 3 * i]), ParseFloat(toks[5 + 3 * i]))
             p == PeakIndex(Len(pks), b, i)
         IN  AtomCols(toks, number, element, b, i + 1,
                      [pks EXCEPT ![p].atoms = Append(@, a)])

\* One atom row: its number and element code, then a triple a peak.
AtomRow(line, b, pks) ==
    LET toks == line.toks
    IN  IF Len(toks) < 1 THEN Raised("IndexError")
        ELSE IF toks[1].k # "int" THEN Raised("ValueError")
        ELSE IF Len(toks) < 2 THEN Raised("IndexError")
        ELSE IF toks[2].k # "int" THEN Raised("ValueError")
        ELSE AtomCols(toks, toks[1].n, toks[2].n, b, 0, pks)

RECURSIVE AtomLoop(_, _, _, _)
\* The loop over the atom rows: it ends at a line that starts with eight
\* blanks, or at a line that is only a line break, which sets self.done.
AtomLoop(ls, idx, b, pks) ==
    IF idx >= Len(ls)
    THEN [err |-> "IndexError", index |-> idx, peaks |-> pks, done |-> FALSE]
    ELSE IF StartsWith8(ls[idx + 1])
    THEN [err |-> "none", index |-> idx, peaks |-> pks, done |-> FALSE]
    ELSE IF IsNewline(ls[idx + 1])
    THEN [err |-> "none", index |-> idx, peaks |-> pks, done |-> TRUE]
    ELSE LET row == AtomRow(ls[idx + 1], b, pks)
         IN  IF row.ok THEN AtomLoop(ls, idx + 1, b, row.v)
             ELSE [err |-> row.v, index |-> idx, peaks |-> pks, done |-> FALSE]

\* PeakAssigner.make_peaks(): the cursor, the peaks and the done flag it
\* leaves, and the error it raises if any.  (What a call that raises leaves
\* behind is never seen: __init__ raises with it.)
make_peaks(ls, idx, pks) ==
    LET Fail(err, at) == [err |-> err, index |-> at, peaks |-> pks, done |-> FALSE]
    IN  IF idx >= Len(ls) THEN Fail("IndexError", idx)
        ELSE LET header == HeaderInts(ls[idx + 1])
             IN  IF ~header.ok THEN Fail(header.v, idx)
                 ELSE LET pl == PropLoop(ls, SkipHeader(idx), <<header.v>>)
                      IN  IF pl.err # "none" THEN Fail(pl.err, pl.index)
                          ELSE LET prop_zip == Zip(pl.props)
                                   made == MakeSpectralPeaks(prop_zip, pks)
                               IN  IF ~made.ok THEN Fail(made.v, pl.index)
                                   ELSE AtomLoop(ls, pl.index + 1,
                                                 Len(prop_zip), made.v)

\* PeakAssigner(log_file, heavy_only), up to the loop over make_peaks.
PAOpen ==
    /\ pa_state = "new"
    /\ \E prm \in LogParams, heavy \in BOOLEAN :
          /\ pa_log' = prm
          /\ lines' = LogOf(prm)
          /\ index' = Seek(LogOf(prm), 0)
          /\ heavy_only' = heavy
    /\ peaks' = <<>>
    /\ done' = FALSE
    /\ pa_state' = "parsing"
    /\ pa_turns' = 0
    /\ UNCHANGED <<pa_call, pa_ret>>
    /\ UNCHANGED paRest

\* A turn of the loop that leaves self.index where it was.
PAMakePeaksKeepsCursor ==
    /\ pa_state = "parsing"
    /\ ~done
    /\ LET r == make_peaks(lines, index, peaks)
       IN  /\ peaks' = r.peaks
           /\ done' = r.done
           /\ pa_state' = IF r.err # "none" THEN r.err
                          ELSE IF r.done THEN "ok" ELSE "parsing"
    /\ pa_turns' = pa_turns + 1
    /\ UNCHANGED <<index, lines, heavy_only, pa_log, pa_call, pa_ret>>
    /\ UNCHANGED paRest

\* One turn of: while not self.done: self.make_peaks()
PAMakePeaks ==
    /\ pa_state = "parsing"
    /\ ~done
    /\ LET r == make_peaks(lines, index, peaks)
       IN  /\ index' = r.index
           /\ peaks' = r.peaks
           /\ done' = r.done
           /\ pa_state' = IF r.err # "none" THEN r.err
                          ELSE IF r.done THEN "ok" ELSE "parsing"
    /\ pa_turns' = pa_turns + 1
    /\ UNCHANGED <<lines, heavy_only, pa_log, pa_call, pa_ret>>
    /\ UNCHANGED paRest

\* peak.assign(heavy_only) on a peak of a constructed PeakAssigner.
PAAssign ==
    /\ pa_state = "ok"
    /\ \E p \in 1..Len(peaks), heavy \in BOOLEAN :
          /\ pa_call' = [op |-> "assign", peak |-> p, heavy_only |-> heavy]
          /\ pa_ret' = assign(peaks[p], heavy)
    /\ UNCHANGED <<lines, index, done, peaks, heavy_only, pa_state, pa_turns,
                   pa_log>>
    /\ UNCHANGED paRest

\* A turn of `while not self.done: self.make_peaks()`, seen by its count.
LoopTurn ==
    /\ pa_state = "parsing"
    /\ ~done
    /\ pa_turns' = pa_turns + 1

InitPA ==
    /\ lines = <<>>
    /\ index = 0
    /\ done = FALSE
    /\ peaks = <<>>
    /\ heavy_only = FALSE
    /\ pa_state = "new"
    /\ pa_turns = 0
    /\ pa_log = [defect |-> "nolog"]
    /\ pa_call = [op |-> "none"]
    /\ pa_ret = <<>>

NextPA ==
    \/ PAOpen
    \/ PAMakePeaks
    \/ PAAssign

(***************************************************************************)
(* DistanceMatrix                                                          *)
(* A matrix object is [matrix |-> rows, units |-> string]; rows is the     *)
(* list of lists self.__matrix.                                            *)
(***************************************************************************)
SUPPORTED_UNITS == {"a", "angstroms", "nm", "nanometers"}

DEFAULT_UNIT == "angstroms"

\* DistanceMatrix(matrix, units)
DistanceMatrixInit(matrix, units) ==
    IF units \notin SUPPORTED_UNITS THEN Raised("ValueError")
    ELSE Ok([matrix |-> matrix, units |-> units])

\* The first character of a unit string.
FirstChar(units) ==
    IF units \in {"a", "angstroms"} THEN "a"
    ELSE IF units \in {"nm", "nanometers"} THEN "n"
    ELSE "f"

MinOf(a, b) == IF a <= b THEN a ELSE b

\* self == other for two matrix objects: zip stops at the shorter operand.
DistanceMatrixEq(self, other) ==
    /\ FirstChar(self.units) = FirstChar(other.units)
    /\ \A r \in 1..MinOf(Len(self.matrix), Len(other.matrix)) :
          \A c \in 1..MinOf(Len(self.matrix[r]), Len(other.matrix[r])) :
              self.matrix[r][c] = other.matrix[r][c]

(***************************************************************************)
(* DistanceMatrix.from_log_file, one step per iteration of its loops       *)
(***************************************************************************)
\* The placeholder None of temp_matrix.
None == [k |-> "None"]

\* The width of a band of the printed matrix.
BAND == 5

\* The most atoms of a log.
MaxLogAtoms == 7

\* The distance printed for atoms n and j.
DistanceOf(seed, n, j) ==
    IF n = j THEN TDec(0, 10) ELSE TDec(10 * n + j + seed, 10)

\* The atoms that band b of an N-atom matrix has a column for.
BandCols(N, b) == MinOf(N, BAND * b + BAND) - BAND * b

MatrixTitle == Line("dmtitle", 1, <<TWord, TWord, TWord>>)

ColumnHeader(N, b) ==
    Line("colhdr", 8, [c \in 1..BandCols(N, b) |-> TInt(BAND * b + c)])

MatrixRow(seed, b, n) ==
    Line("dmrow", 5,
         <<TInt(n), TUpper>> \o
         [c \in 1..BandCols(n, b) |-> DistanceOf(seed, n, BAND * b + c)])

StoichLine == Line("stoich", 1, <<TWord, TWord>>)

\* Band b: its column header, then a row for every atom n > BAND * b.
BandLines(seed, N, b) ==
    <<ColumnHeader(N, b)>> \o
    [r \in 1..(N - BAND * b) |-> MatrixRow(seed, b, BAND * b + r)]

RECURSIVE Bands(_, _, _)
Bands(seed, N, b) ==
    IF BAND * b >= N THEN <<>>
    ELSE BandLines(seed, N, b) \o Bands(seed, N, b + 1)

RECURSIVE Copies(_, _, _)
Copies(seed, N, k) ==
    IF k = 0 THEN <<>>
    ELSE <<MatrixTitle>> \o Bands(seed, N, 0) \o Copies(seed, N, k - 1)

\* The logs parsed: the N-atom matrix printed `copies` times, the 'stoich'
\* line (or none), and the matrix once more after it when `tail` is set.
MatrixLogParams ==
    [n : 0..MaxLogAtoms, seed : {0, 1}, copies : {1}, stoich : {TRUE},
     tail : BOOLEAN]
    \cup [n : 1..2, seed : {0}, copies : {1, 2}, stoich : BOOLEAN,
          tail : {FALSE}]

MatrixLogOf(prm) ==
    Copies(prm.seed, prm.n, prm.copies)
    \o (IF prm.stoich THEN <<StoichLine>> ELSE <<>>)
    \o (IF prm.tail THEN Copies(prm.seed, prm.n, 1) ELSE <<>>)

\* re.match(MATRIX_REGEX, line.strip())
MatchesMatrixRegex(line) ==
    LET toks == line.toks
    IN  /\ Len(toks) >= 3
        /\ toks[1].k = "int" /\ toks[1].n >= 0
        /\ toks[2].k = "upper"
        /\ \A i \in 3..Len(toks) : toks[i].k = "dec" /\ toks[i].n >= 0

\* 'stoich' in line.lower()
HasStoich(line) == line.tag = "stoich"

RECURSIVE MaxAtomNumber(_)
MaxAtomNumber(sl) ==
    IF Len(sl) = 1 THEN sl[1][1].n
    ELSE LET m == MaxAtomNumber(Tail(sl))
         IN  IF sl[1][1].n >= m THEN sl[1][1].n ELSE m

\* The offset a row of the second loop writes at.  `current_index is 1`
\* holds exactly when current_index == 1: CPython keeps one object per
\* small int.
NextOffset(current_index, old, offset) ==
    LET bumped == IF current_index < old THEN offset + BAND ELSE offset
    IN  IF current_index = 1 THEN 0 ELSE bumped

\* One iteration of the second loop: the distances of `line` written into
\* row current_index from column column_offset on (0-based both).  The logs
\* number their atoms from 1, so current_index is a row of temp_matrix.
PlaceLine(tm, line, old, offset) ==
    LET current_index == line[1].n - 1
        off == NextOffset(current_index, old, offset)
        n   == Len(line) - 2
    IN  IF n + off > Len(tm)
        THEN [err |-> "IndexError", tm |-> tm, old |-> old, offset |-> off]
        ELSE [err |-> "none",
              tm |-> [tm EXCEPT ![current_index + 1] =
                        [c \in 1..Len(tm) |->
                            IF c > off /\ c <= off + n
                            THEN line[c - off + 2] ELSE @[c]]],
              old |-> current_index, offset |-> off]

\* `if item`: None and the empty string are dropped.
Truthy(item) == item.k \notin {"None", "empty"}

\* [[float(item) for item in row if item] for row in temp_matrix]
StripPlaceholders(tm) ==
    [r \in 1..Len(tm) |-> MapSeq(ParseFloat, FilterSeq(Truthy, tm[r]))]

InitFL ==
    /\ log_lines = <<>>
    /\ scan_pos = 0
    /\ split_lines = <<>>
    /\ temp_matrix = <<>>
    /\ old_index = 0
    /\ column_offset = 0
    /\ place_pos = 0
    /\ fl_state = "new"
    /\ fl_log = [n |-> 0, seed |-> 0, copies |-> 0, stoich |-> FALSE,
                 tail |-> FALSE]
    /\ fl_ret = [matrix |-> <<>>, units |-> DEFAULT_UNIT]

\* open(filename) and readlines()
FLOpen ==
    /\ fl_state = "new"
    /\ \E prm \in MatrixLogParams :
          /\ fl_log' = prm
          /\ log_lines' = MatrixLogOf(prm)
          /\ fl_state' = IF MatrixLogOf(prm) = <<>> THEN "alloc" ELSE "scan"
    /\ UNCHANGED <<scan_pos, split_lines, temp_matrix, old_index,
                   column_offset, place_pos, fl_ret>>
    /\ UNCHANGED flRest

\* One iteration of the first loop: keep the line if it is a matrix row,
\* stop at the line containing 'stoich'.
FLScanLine ==
    /\ fl_state = "scan"
    /\ LET line == log_lines[scan_pos + 1]
       IN  /\ split_lines' = IF MatchesMatrixRegex(line)
                             THEN Append(split_lines, line.toks)
                             ELSE split_lines
           /\ fl_state' = IF HasStoich(line) \/ scan_pos + 1 = Len(log_lines)
                          THEN "alloc" ELSE "scan"
    /\ scan_pos' = scan_pos + 1
    /\ UNCHANGED <<log_lines, temp_matrix, old_index, column_offset,
                   place_pos, fl_log, fl_ret>>
    /\ UNCHANGED flRest

\* number_atoms and the empty temp_matrix; max() of no rows is a ValueError.
FLAllocate ==
    /\ fl_state = "alloc"
    /\ IF split_lines = <<>>
       THEN /\ fl_state' = "ValueError"
            /\ UNCHANGED temp_matrix
       ELSE LET number_atoms == MaxAtomNumber(split_lines)
            IN  /\ temp_matrix' = [r \in 1..number_atoms |->
                                     [c \in 1..number_atoms |-> None]]
                /\ fl_state' = "place"
    /\ old_index' = 0
    /\ column_offset' = 0
    /\ place_pos' = 0
    /\ UNCHANGED <<log_lines, scan_pos, split_lines, fl_log, fl_ret>>
    /\ UNCHANGED flRest

\* One iteration of the second loop.
FLPlaceLine ==
    /\ fl_state = "place"
    /\ place_pos < Len(split_lines)
    /\ LET r == PlaceLine(temp_matrix, split_lines[place_pos + 1],
                          old_index, column_offset)
       IN  /\ temp_matrix' = r.tm
           /\ old_index' = r.old
           /\ column_offset' = r.offset
           /\ fl_state' = IF r.err = "none" THEN "place" ELSE r.err
    /\ place_pos' = place_pos + 1
    /\ UNCHANGED <<log_lines, scan_pos, split_lines, fl_log, fl_ret>>
    /\ UNCHANGED flRest

\* The end of from_log_file: strip the placeholders, build the matrix.
FLStrip ==
    /\ fl_state = "place"
    /\ place_pos = Len(split_lines)
    /\ fl_ret' = DistanceMatrixInit(StripPlaceholders(temp_matrix),
                                    DEFAULT_UNIT).v
    /\ fl_state' = "ok"
    /\ UNCHANGED <<log_lines, scan_pos, split_lines, temp_matrix, old_index,
                   column_offset, place_pos, fl_log>>
    /\ UNCHANGED flRest

NextFL ==
    \/ FLOpen
    \/ FLScanLine
    \/ FLAllocate
    \/ FLPlaceLine
    \/ FLStrip

(***************************************************************************)
(* DistanceMatrix.from_csv.  A text is the list of its lines, a line the   *)
(* list of fields line.strip().split(',') yields (never empty: the empty   *)
(* line yields one empty field).  A source is a path (a str) naming a file *)
(* with that text, or the open file itself.                                *)
(***************************************************************************)
RECURSIVE RemoveFirstEmpty(_)
\* line.remove(''), for a line that holds an empty field
RemoveFirstEmpty(line) ==
    IF Head(line) = TEmpty THEN Tail(line)
    ELSE <<Head(line)>> \o RemoveFirstEmpty(Tail(line))

RECURSIVE StripEmpties(_)
\* [line.remove('') for line in lines] inside try/except ValueError: the
\* first line without an empty field ends the comprehension.
StripEmpties(text) ==
    IF text = <<>> THEN <<>>
    ELSE IF \E i \in 1..Len(Head(text)) : Head(text)[i] = TEmpty
         THEN <<RemoveFirstEmpty(Head(text))>> \o StripEmpties(Tail(text))
         ELSE text

RECURSIVE ReadRows(_, _, _)
\* The loop over the lines: highest_line_length and matrix so far.
ReadRows(text, highest_line_length, matrix) ==
    IF text = <<>> THEN Ok(matrix)
    ELSE LET line == Head(text)
         IN  IF Len(line) = highest_line_length + 1
             THEN IF \A i \in 1..Len(line) : is_numeric(line[i])
                  THEN ReadRows(Tail(text), highest_line_length + 1,
                                Append(matrix, MapSeq(ParseFloat, line)))
                  ELSE ReadRows(Tail(text), highest_line_length, matrix)
             ELSE Raised("ValueError")

\* from_csv on an open file
from_csv_file(text, units) ==
    LET r == ReadRows(StripEmpties(text), 0, <<>>)
    IN  IF r.ok THEN DistanceMatrixInit(r.v, units) ELSE r

\* DistanceMatrix.from_csv(csv_file, units)
from_csv(csv_file, units) ==
    IF csv_file.kind = "path"
    THEN IF ~EndsWithCsv(csv_file.name) THEN Raised("ValueError")
         ELSE from_csv_file(csv_file.text, DEFAULT_UNIT)
    ELSE from_csv_file(csv_file.text, units)

\* The most rows of a csv text.
MaxCsvRows == 3

\* The field printed for row r, column c of a distance table.
CellTok(r, c) == IF r = c THEN TDec(0, 10) ELSE TDec(10 * r + c, 10)

CsvDefects == {"none", "word", "short", "long"}

\* The texts read: the lower triangle of K rows, a trailing comma on the
\* rows of `commas`, and one row r spoilt: a field that is no number, a
\* field too few or a field too many.
CsvTextParams ==
    {p \in [rows : 0..MaxCsvRows, commas : SUBSET (1..MaxCsvRows),
            defect : CsvDefects, at : 1..MaxCsvRows] :
        /\ p.commas \subseteq 1..p.rows
        /\ IF p.defect = "none" THEN p.at = 1 ELSE p.at <= p.rows}

CsvRow(p, r) ==
    LET base  == [c \in 1..r |-> CellTok(r, c)]
        spoil == IF p.defect = "none" \/ p.at # r THEN base
                 ELSE IF p.defect = "word" THEN [base EXCEPT ![1] = TWord]
                 ELSE IF p.defect = "long" THEN Append(base, CellTok(r, 1))
                 ELSE IF r = 1 THEN <<TEmpty>>
                 ELSE SubSeq(base, 1, r - 1)
    IN  IF r \in p.commas THEN Append(spoil, TEmpty) ELSE spoil

CsvTextOf(p) == [r \in 1..p.rows |-> CsvRow(p, r)]

UnitArgs == SUPPORTED_UNITS \cup {"furlongs"}

CsvSources ==
    {[kind |-> "file", name |-> "m.csv"]}
    \cup [kind : {"path"}, name : Paths]

\* from_csv is a static method and keeps nothing between calls: a behaviour
\* makes one call.
DMFromCsv ==
    /\ csv_call.op = "none"
    /\ \E p \in CsvTextParams, src \in CsvSources, units \in UnitArgs :
          LET csv_file == [kind |-> src.kind, name |-> src.name,
                           text |-> CsvTextOf(p)]
          IN  /\ csv_call' = [op |-> "from_csv", csv_file |-> csv_file,
                              units |-> units, prm |-> p]
              /\ csv_ret' = from_csv(csv_file, units)
    /\ UNCHANGED csvRest

NextCsv == DMFromCsv

(***************************************************************************)
(* DistanceMatrix: shift and RMS deviation                                 *)
(***************************************************************************)
\* len(self): 0 for no rows, else the length of the longest row
RECURSIVE MaxRowLen(_)
MaxRowLen(matrix) ==
    IF matrix = <<>> THEN 0
    ELSE LET m == MaxRowLen(Tail(matrix))
         IN  IF Len(Head(matrix)) >= m THEN Len(Head(matrix)) ELSE m

DistanceMatrixLen(self) == MaxRowLen(self.matrix)

\* self.flattened
flattened(self) == flatten(self.matrix)

\* self >> other, other a Python int
rshift(self, other) ==
    DistanceMatrixInit(
        [r \in 1..Len(self.matrix) |->
            [c \in 1..Len(self.matrix[r]) |->
                FAdd(self.matrix[r][c], IntF(other))]],
        self.units)

\* distance_threshold=None
NoThreshold == <<>>

\* zip(self.flattened, other.flattened) as the list of the a - b
Differences(self, other) ==
    [i \in 1..MinOf(Len(flattened(self)), Len(flattened(other))) |->
        FSub(flattened(self)[i], flattened(other)[i])]

\* sum(squared_differences) / len(squared_differences), without the root
MeanSquare(diffs) ==
    IF diffs = <<>> THEN Raised("ZeroDivisionError")
    ELSE Ok(FDiv(FSum(MapSeq(FSquare, diffs)), IntF(Len(diffs))))

\* sqrt(sum(squared_differences) / len(squared_differences))
RootMeanSquare(diffs) ==
    IF diffs = <<>> THEN Raised("ZeroDivisionError")
    ELSE Ok(FSqrt(FDiv(FSum(MapSeq(FSquare, diffs)), IntF(Len(diffs)))))

\* self.rms_deviation(other, distance_threshold)
rms_deviation(self, other, distance_threshold) ==
    IF DistanceMatrixLen(self) # DistanceMatrixLen(other)
    THEN Raised("ValueError")
    ELSE IF self.units # other.units THEN Raised("ValueError")
    ELSE IF distance_threshold # NoThreshold /\ distance_threshold # FZero
    THEN LET Near(d) == FLt(FAbs(d), distance_threshold)
         IN  RootMeanSquare(FilterSeq(Near, Differences(self, other)))
    ELSE RootMeanSquare(Differences(self, other))

\* The most rows of a matrix, and the largest shift.
MaxRows == 3

MaxShift == 9

\* The cells of the matrices: rows of three values each.
CellVals ==
    << <<IntF(0), RoundRat(15, 10, 0), RoundRat(1003, 10, 0)>>,
       <<IntF(1), RoundRat(861, 100, 0), RoundRat(25, 10, 0)>> >>

\* The tables given to the constructor: none, one empty row, and the lower
\* triangles and squares of up to MaxRows rows over CellVals.
Tables ==
    {<<>>, << <<>> >>} \cup
    {[r \in 1..n |->
        [c \in 1..(IF full THEN n ELSE r) |-> CellVals[f][((r + c + s) % 3) + 1]]] :
        n \in 1..MaxRows, full \in BOOLEAN, f \in 1..2, s \in 0..2}

Thresholds == {NoThreshold, FZero, RoundRat(25, 10, 0)}

\* The value of dm_a and dm_b before the object is made.
NoObject == [matrix |-> <<>>, units |-> "no object"]

\* DistanceMatrix(matrix, units)
DMNew ==
    /\ dm_a = NoObject
    /\ dm_call.op = "none"
    /\ \E matrix \in Tables, units \in UnitArgs :
          LET r == DistanceMatrixInit(matrix, units)
          IN  /\ dm_a' = IF r.ok THEN r.v ELSE NoObject
              /\ dm_call' = [op |-> "init", units |-> units]
              /\ dm_ret' = IF r.ok THEN Ok("object") ELSE r
    /\ UNCHANGED dm_b
    /\ UNCHANGED dmRest

\* dm_b = dm_a >> k
DMRShift ==
    /\ dm_a # NoObject
    /\ dm_b = NoObject
    /\ \E k \in 1..MaxShift :
          /\ dm_b' = rshift(dm_a, k).v
          /\ dm_call' = [op |-> "rshift", other |-> k]
          /\ dm_ret' = Ok("object")
    /\ UNCHANGED dm_a
    /\ UNCHANGED dmRest

\* The calls that build a value from dm_a and dm_b and leave both alone: a
\* behaviour makes one of them for a pair of matrices.
Observed == dm_call.op \in {"rms_deviation", "sub", "eq", "eq_foreign"}

\* dm_a.rms_deviation(dm_b, distance_threshold)
DMRmsDeviation ==
    /\ dm_a # NoObject
    /\ dm_b # NoObject
    /\ ~Observed
    /\ \E t \in Thresholds :
          /\ dm_call' = [op |-> "rms_deviation", distance_threshold |-> t]
          /\ dm_ret' = rms_deviation(dm_a, dm_b, t)
    /\ UNCHANGED <<dm_a, dm_b>>
    /\ UNCHANGED dmRest

\* other_item - self_item in place of self_item - other_item.
subSwapped(self, other) ==
    DistanceMatrixInit(
        [r \in 1..MinOf(Len(self.matrix), Len(other.matrix)) |->
            [c \in 1..MinOf(Len(self.matrix[r]), Len(other.matrix[r])) |->
                FSub(other.matrix[r][c], self.matrix[r][c])]],
        self.units)

\* self - other: zip stops at the shorter operand, row by row.
sub(self, other) ==
    DistanceMatrixInit(
        [r \in 1..MinOf(Len(self.matrix), Len(other.matrix)) |->
            [c \in 1..MinOf(Len(self.matrix[r]), Len(other.matrix[r])) |->
                FSub(self.matrix[r][c], other.matrix[r][c])]],
        self.units)

\* self == other for any other: a value without units, or whose rows cannot
\* be read, raises AttributeError or ValueError inside __eq__, which
\* answers False.
eq(self, other) ==
    IF other.kind # "DistanceMatrix" THEN FALSE
    ELSE DistanceMatrixEq(self, other.obj)

\* The tables and units of the second matrix.
OtherTables ==
    {<<>>, << <<>> >>} \cup
    {[r \in 1..n |->
        [c \in 1..(IF full THEN n ELSE r) |-> CellVals[1][((r + c + s) % 3) + 1]]] :
        n \in 1..MaxRows, full \in BOOLEAN, s \in 0..1}

OtherUnits == {"a", "angstroms", "nm"}

\* The values that are no DistanceMatrix: a list, None.
Foreign == {[kind |-> "list"], [kind |-> "None"]}

\* dm_b = DistanceMatrix(matrix, units), a second matrix beside a first one
\* that is drawn from the same tables.
DMNewOther ==
    /\ dm_a # NoObject
    /\ dm_a.matrix \in OtherTables
    /\ dm_b = NoObject
    /\ \E matrix \in OtherTables, units \in OtherUnits :
          /\ dm_b' = DistanceMatrixInit(matrix, units).v
          /\ dm_call' = [op |-> "init_other", units |-> units]
          /\ dm_ret' = Ok("object")
    /\ UNCHANGED dm_a
    /\ UNCHANGED dmRest

\* dm_a - dm_b
DMSub ==
    /\ dm_a # NoObject
    /\ dm_b # NoObject
    /\ ~Observed
    /\ dm_call' = [op |-> "sub"]
    /\ dm_ret' = sub(dm_a, dm_b)
    /\ UNCHANGED <<dm_a, dm_b>>
    /\ UNCHANGED dmRest

\* dm_a - dm_a
DMSubSelf ==
    /\ dm_a # NoObject
    /\ dm_b = NoObject
    /\ ~Observed
    /\ dm_call' = [op |-> "sub_self"]
    /\ dm_ret' = sub(dm_a, dm_a)
    /\ UNCHANGED <<dm_a, dm_b>>
    /\ UNCHANGED dmRest

\* dm_a == dm_b
DMEq ==
    /\ dm_a # NoObject
    /\ dm_b # NoObject
    /\ ~Observed
    /\ dm_call' = [op |-> "eq"]
    /\ dm_ret' = Ok(eq(dm_a, [kind |-> "DistanceMatrix", obj |-> dm_b]))
    /\ UNCHANGED <<dm_a, dm_b>>
    /\ UNCHANGED dmRest

\* dm_a == dm_a, and dm_a == a value that is no DistanceMatrix
DMEqForeign ==
    /\ dm_a # NoObject
    /\ dm_b = NoObject
    /\ ~Observed
    /\ \E other \in Foreign \cup {[kind |-> "DistanceMatrix", obj |-> dm_a]} :
          /\ dm_call' = [op |-> "eq_foreign", other |-> other.kind]
          /\ dm_ret' = Ok(eq(dm_a, other))
    /\ UNCHANGED <<dm_a, dm_b>>
    /\ UNCHANGED dmRest

NextDM ==
    \/ DMNew
    \/ DMNewOther
    \/ DMRShift
    \/ DMRmsDeviation
    \/ DMSub
    \/ DMSubSelf
    \/ DMEq
    \/ DMEqForeign

(***************************************************************************)
(* integrate (src/raman/util.py)                                           *)
(***************************************************************************)
\* The longest array integrate is given.
MaxIntLen == 4

XVals == {IntF(0), RoundRat(25, 10, 0)}

YVals == {IntF(1), IntF(2)}

\* integrate is a function of its arguments: one call is observed.
Integrate ==
    /\ int_call.op = "none"
    /\ \E xs \in SeqsUpTo(XVals, MaxIntLen),
          ys \in SeqsUpTo(YVals, MaxIntLen) :
          /\ int_call' = [op |-> "integrate", x_array |-> xs,
                          y_array |-> ys]
          /\ int_ret' = integrate(xs, ys)
    /\ UNCHANGED intRest

InitInt ==
    /\ int_call = [op |-> "none"]
    /\ int_ret = Ok("None")

NextInt == Integrate

(***************************************************************************)
(* Spectrum: the claims                                                    *)
(***************************************************************************)
\* The sum over the modes of lorentzian(x; intensity_i, frequency_i, width).
LorentzianSum(x, width) ==
    FSum([i \in 1..Len(frequencies) |->
            lorentzian(x, intensities[i], frequencies[i], width)])

\* C4: in every state of a Spectrum, fit_function(x) is the sum over the
\* modes of lorentzian(x; intensity_i, frequency_i, the current
\* lorentzian_width).
C4_FitUsesCurrentWidth ==
    sp_state = "ok" =>
        \A x \in ProbeXs : fit_function(x) = LorentzianSum(x, lorentzian_width)

\* C5: for count >= 2 and min(frequencies) < max(frequencies), as_list(count)
\* returns count values, the k-th being fit_function at the k-th of count
\* evenly spaced points from min(frequencies) to max(frequencies).
C5_AsListReturnsCountValues ==
    (/\ sp_state = "ok"
     /\ sp_call.op = "as_list"
     /\ sp_call.points >= 2
     /\ FLt(FMin(frequencies), FMax(frequencies)))
    => /\ sp_ret.ok
       /\ Len(sp_ret.v) = sp_call.points
       /\ LET xs == linspace(FMin(frequencies), FMax(frequencies), sp_call.points).v
          IN  \A k \in 1..sp_call.points : sp_ret.v[k] = fit_function(xs[k])

\* C6: Spectrum(frequencies, intensities) succeeds exactly when the two have
\* equal length >= 1 and raises ValueError otherwise; every Spectrum that
\* exists, however it was made and whatever was called on it, has
\* len(frequencies) == len(intensities) >= 1.
C6_SpectrumLengths ==
    /\ sp_state = "ok" =>
          /\ Len(frequencies) = Len(intensities)
          /\ Len(frequencies) >= 1
    /\ sp_call.op = "init" =>
          /\ sp_state = "ok" <=>
                /\ Len(sp_call.frequencies) = Len(sp_call.intensities)
                /\ Len(sp_call.frequencies) >= 1
          /\ sp_state \in {"ok", "ValueError"}
    /\ sp_call.op \in {"from_csv", "from_log_file", "copy"} =>
          sp_state \in {"ok", "ValueError"}

\* A Spectrum parsed from a log has been copied, its width set and sampled.
C6_Witness ==
    /\ sp_state = "ok"
    /\ sp_call.op = "as_list"
    /\ sp_ret.ok
    /\ Len(frequencies) = 2
    /\ lorentzians[1].width # lorentzian_width


\* Two lists of floats are equal as Python compares them: same length and
\* equal items, position by position.
SameList(s, t) ==
    /\ Len(s) = Len(t)
    /\ \A i \in 1..Len(s) : s[i] = t[i]

AllFrequenciesEqual ==
    \A i, j \in 1..Len(frequencies) : frequencies[i] = frequencies[j]

\* C21: a Spectrum whose frequencies are all equal (every single-mode
\* Spectrum is one) cannot be sampled: min(frequencies) is not below
\* max(frequencies), so linspace refuses the range for every count, and
\* x_array (with or without an explicit range), as_list and integral raise
\* ValueError, while fit_function(x) and subtraction return a value.
C21_EqualFrequenciesCannotBeSampled ==
    (sp_state = "ok" /\ AllFrequenciesEqual) =>
        /\ ~FLt(FMin(frequencies), FMax(frequencies))
        /\ \A points \in PointArgs :
              ~linspace(FMin(frequencies), FMax(frequencies), points).ok
        /\ sp_call.op \in {"x_array", "as_list", "integral"} =>
              (~sp_ret.ok /\ sp_ret.v = "ValueError")
        /\ sp_call.op \in {"fit_function", "sub"} => sp_ret.ok

\* x_array has been called with an explicit range on a spectrum of two modes
\* of one frequency.
C21_Witness ==
    /\ sp_state = "ok"
    /\ Len(frequencies) = 2
    /\ AllFrequenciesEqual
    /\ sp_call.op = "x_array"
    /\ "x_min" \in DOMAIN sp_call
    /\ sp_call.points >= 2
    /\ ~sp_ret.ok
    /\ sp_ret.v = "ValueError"

(***************************************************************************)
(* PeakAssigner: the claims                                                *)
(***************************************************************************)
Range(s) == {s[i] : i \in 1..Len(s)}

\* The log being parsed has every block of three peaks and lacks nothing.
BlocksOfThree ==
    /\ pa_state # "new"
    /\ pa_log.defect = "none"
    /\ \A b \in 1..Len(pa_log.sizes) : pa_log.sizes[b] = 3

\* C1: a log of N complete blocks of 3 peaks and A atom rows each, the last
\* followed by a blank line, is parsed without error into exactly 3*N peaks
\* in block order, each holding exactly A atoms.
C1_ThreePeaksPerBlock ==
    BlocksOfThree =>
        /\ pa_state \in {"parsing", "ok"}
        /\ pa_state = "ok" =>
              /\ Len(peaks) = 3 * Len(pa_log.sizes)
              /\ \A p \in 1..Len(peaks) :
                    /\ peaks[p].number = p
                    /\ Len(peaks[p].atoms) = pa_log.natoms

C1_Witness ==
    /\ BlocksOfThree
    /\ pa_state = "ok"
    /\ Len(pa_log.sizes) = 2
    /\ pa_log.natoms = 2
    /\ Len(peaks) = 6

\* The float of the a-th coordinate of the triple that atom row r of block b
\* prints for the i-th peak of the block.
PrintedCoord(b, r, i, a) ==
    RoundRat(TripleAt(pa_log.seed, b, r, i)[a], 100, 0)

\* C2: the Atom built from the i-th triple of an atom row of block b is
\* appended to the i-th peak created for block b: at every moment of the
\* parse of a log whose blocks all make their peaks, every peak created so
\* far holds, in row order, one atom per row of its own block with the row's
\* number, element code and i-th triple, so no later row or block changes it.
C2_AtomsGoToTheirPeak ==
    (pa_state \in {"parsing", "ok"} /\ pa_log.defect # "noatomhdr1") =>
        \A b \in 1..Len(pa_log.sizes) : \A i \in 1..pa_log.sizes[b] :
            LET p == PeaksBefore(pa_log.sizes, b) + i
            IN  p <= Len(peaks) =>
                  /\ peaks[p].number = p
                  /\ Len(peaks[p].atoms) = pa_log.natoms
                  /\ \A r \in 1..pa_log.natoms :
                        /\ peaks[p].atoms[r].number = r
                        /\ peaks[p].atoms[r].element = pa_log.elems[r]
                        /\ peaks[p].atoms[r].x = PrintedCoord(b, r, i, 1)
                        /\ peaks[p].atoms[r].y = PrintedCoord(b, r, i, 2)
                        /\ peaks[p].atoms[r].z = PrintedCoord(b, r, i, 3)

C2_Witness ==
    /\ pa_state = "ok"
    /\ Len(pa_log.sizes) = 2
    /\ pa_log.sizes[1] = 1
    /\ pa_log.sizes[2] > 1
    /\ pa_log.natoms >= 2
    /\ Len(peaks) = 1 + pa_log.sizes[2]
    /\ Len(peaks[Len(peaks)].atoms) = pa_log.natoms

NonIncreasing(s) ==
    \A k \in 1..(Len(s) - 1) : ~FLt(s[k].eigen_sum, s[k + 1].eigen_sum)

\* What the last assign call must return when heavy_only drops the atoms
\* that Dropped holds for.
AssignReturns(Dropped(_)) ==
    LET atoms == peaks[pa_call.peak].atoms
        want  == {a \in Range(atoms) :
                    a.eigen_sum # FZero /\ ~(pa_call.heavy_only /\ Dropped(a))}
    IN  /\ Range(pa_ret) = want
        /\ Len(pa_ret) = Cardinality(want)
        /\ pa_call.heavy_only => \A k \in 1..Len(pa_ret) : pa_ret[k].element # 1
        /\ NonIncreasing(pa_ret)
        /\ \A a \in Range(atoms) :
              a.eigen_sum # FZero <=> (a.x # FZero \/ a.y # FZero)

\* C3 as stated: assign(heavy_only) returns exactly the atoms with a non-zero
\* eigen_sum, less the atoms of element code 1 when heavy_only is true, in
\* non-increasing order of eigen_sum.
C3_AssignDropsOnlyCodeOne ==
    (pa_state = "ok" /\ pa_call.op = "assign") =>
        LET IsCodeOne(a) == a.element = 1 IN AssignReturns(IsCodeOne)

\* C3 as amended: with heavy_only, assign drops every atom whose element
\* code is 1 or less.
C3_AssignDropsCodesUpToOne ==
    (pa_state = "ok" /\ pa_call.op = "assign") =>
        LET IsLight(a) == a.element <= 1 IN AssignReturns(IsLight)

\* assign(heavy_only=True) on a peak with a hydrogen that moves has returned
\* the other atom.
C3_Witness ==
    /\ pa_state = "ok"
    /\ pa_call.op = "assign"
    /\ pa_call.heavy_only
    /\ Len(pa_ret) >= 1
    /\ \E a \in Range(peaks[pa_call.peak].atoms) :
          a.element = 1 /\ a.eigen_sum # FZero

\* The errors a PeakAssigner construction ends with.
ParseErrors == {"IndexError", "ValueError", "TypeError"}

\* C16: the construction of a PeakAssigner terminates: the cursor never
\* decreases, every make_peaks that returns has advanced it, a loop that has
\* begun ends, and it ends either with the done flag set or with an error.
C16_ConstructionTerminates ==
    /\ [][index' >= index]_vars
    /\ [][PAMakePeaks => (pa_state' \in {"parsing", "ok"} => index' > index)]_vars
    /\ (pa_state = "parsing") ~> (pa_state # "parsing")
    /\ [](pa_state \notin {"new", "parsing"} =>
             \/ pa_state = "ok" /\ done
             \/ pa_state \in ParseErrors /\ ~done)

\* The loop has ended with the done flag after more than one make_peaks.
C16_Witness ==
    /\ pa_state = "ok"
    /\ done
    /\ Len(pa_log.sizes) >= 2
    /\ index > Seek(lines, 0) + 6

\* The log being parsed lacks a marker the parser expects.
LacksMarker == pa_log.defect \in {"noanchor", "noblank", "noatomhdr", "noatomhdr1"}

\* C17: the construction of a PeakAssigner on a log that lacks an expected
\* marker (the 'and normal coordinates:' anchor, the 'Atom' header of a
\* block, or the blank line behind the last atom section) ends in an error:
\* it never ends with an object and a peak list.
C17_MissingMarkerIsFatal ==
    (LacksMarker /\ pa_state \notin {"new", "parsing"}) =>
        pa_state \in ParseErrors

(***************************************************************************)
(* DistanceMatrix: the claims                                              *)
(***************************************************************************)
\* The log holds exactly one matrix, of at least one atom, and the 'stoich'
\* line after it.
SingleMatrixLog ==
    /\ fl_state # "new"
    /\ fl_log.n >= 1
    /\ fl_log.copies = 1
    /\ fl_log.stoich
    /\ ~fl_log.tail

\* The csv file of the lower triangle that the log of fl_log prints.
TriangleCsv ==
    [kind |-> "file", name |-> "m.csv",
     text |-> [r \in 1..fl_log.n |->
                 [c \in 1..r |-> DistanceOf(fl_log.seed, r, c)]]]

\* C7: for a log with exactly one N-atom matrix in the banded layout and
\* the 'stoich' line after it, from_log_file returns the lower triangle:
\* row n-1 has n entries, entry j is the distance printed for atoms n and
\* j+1, every row ends with its diagonal 0, and the result equals the same
\* matrix loaded with from_csv.
C7_LogGivesLowerTriangle ==
    SingleMatrixLog =>
        /\ fl_state \in {"scan", "alloc", "place", "ok"}
        /\ fl_state = "ok" =>
              /\ Len(fl_ret.matrix) = fl_log.n
              /\ \A n \in 1..fl_log.n :
                    /\ Len(fl_ret.matrix[n]) = n
                    /\ \A j \in 1..n :
                          fl_ret.matrix[n][j] =
                              ParseFloat(DistanceOf(fl_log.seed, n, j))
                    /\ fl_ret.matrix[n][n] = FZero
              /\ from_csv(TriangleCsv, DEFAULT_UNIT).ok
              /\ DistanceMatrixEq(fl_ret, from_csv(TriangleCsv, DEFAULT_UNIT).v)

RECURSIVE RuleOffset(_, _)
\* The column offset the stated rule gives the k-th matched row: 0 at the
\* start, BAND more when the row's atom index (atom number - 1) is lower than
\* that of the row before, 0 when the index is 1.
RuleOffset(rows, k) ==
    IF k = 0 THEN 0
    ELSE LET cur  == rows[k][1].n - 1
             prev == IF k = 1 THEN 0 ELSE rows[k - 1][1].n - 1
         IN  IF cur = 1 THEN 0
             ELSE IF cur < prev THEN RuleOffset(rows, k - 1) + BAND
             ELSE RuleOffset(rows, k - 1)

\* C18: while from_log_file places the matched rows in file order, for any
\* rows before the 'stoich' line (a matrix printed twice included), the
\* column offset follows the rule, the k-th distance of a row is stored at
\* column offset + k of the atom's row, and no store falls outside the
\* N x N table.
C18_OffsetsStayInTable ==
    /\ fl_state \in {"place", "ok", "IndexError"} =>
          column_offset = RuleOffset(split_lines, place_pos)
    /\ (fl_state \in {"place", "ok"} /\ place_pos >= 1) =>
          LET line == split_lines[place_pos]
          IN  \A k \in 1..(Len(line) - 2) :
                 /\ column_offset + k <= Len(temp_matrix)
                 /\ temp_matrix[line[1].n][column_offset + k] = line[k + 2]
    /\ fl_state # "IndexError"

\* No field of the text read is empty.
NoEmptyField ==
    \A r \in 1..Len(csv_call.csv_file.text) :
        \A c \in 1..Len(csv_call.csv_file.text[r]) :
            csv_call.csv_file.text[r][c] # TEmpty

\* Line k (k = 0, 1, ...) of the text read has k+1 fields, all numeric.
LowerTriangleText ==
    \A r \in 1..Len(csv_call.csv_file.text) :
        /\ Len(csv_call.csv_file.text[r]) = r
        /\ \A c \in 1..r : is_numeric(csv_call.csv_file.text[r][c])

\* C8: from_csv on text content returns a matrix only when line k has
\* exactly k+1 fields, all of them numeric; a row that breaks the
\* progression or holds a non-numeric field makes it fail with ValueError.
C8_CsvRejectsBadRows ==
    (/\ csv_call.op = "from_csv"
     /\ csv_call.csv_file.kind = "file"
     /\ csv_call.units \in SUPPORTED_UNITS
     /\ NoEmptyField) =>
        /\ csv_ret.ok <=> LowerTriangleText
        /\ ~csv_ret.ok => csv_ret.v = "ValueError"

\* C9: the matrix from_csv(source, units=u) returns carries u for every
\* supported u, for a path ending in '.csv' and for an open file alike; an
\* unsupported u fails in both cases, and so does a path not ending in
\* '.csv'.
C9_CsvCarriesUnits ==
    csv_call.op = "from_csv" =>
        /\ (csv_call.csv_file.kind = "path"
            /\ ~EndsWithCsv(csv_call.csv_file.name)) =>
              csv_ret = Raised("ValueError")
        /\ csv_call.units \notin SUPPORTED_UNITS =>
              csv_ret = Raised("ValueError")
        /\ csv_ret.ok => csv_ret.v.units = csv_call.units

\* C19: from_csv strips the trailing empty field of every line that has
\* one, whatever the other lines hold: the text whose k-th line has k+1
\* numeric fields parses to the same matrix whichever of its lines end with
\* a comma.
C19_CsvStripsEveryLine ==
    (/\ csv_call.op = "from_csv"
     /\ csv_call.csv_file.kind = "file"
     /\ csv_call.units \in SUPPORTED_UNITS
     /\ csv_call.prm.defect = "none") =>
        /\ csv_ret.ok
        /\ csv_ret.v.matrix =
              [r \in 1..csv_call.prm.rows |->
                  [c \in 1..r |-> ParseFloat(CellTok(r, c))]]

\* a + b needs no rounding: the float sum is the exact sum.
ExactAdd(a, b) ==
    LET e == MinOf(a[2], b[2])
    IN  FAdd(a, b) = Canon(a[1] * Pow2(a[2] - e) + b[1] * Pow2(b[2] - e), e)

\* dm_b is dm_a >> k: same units, same shape, every cell the float sum of
\* the cell and k.
IsShiftOf(k) ==
    /\ dm_b.units = dm_a.units
    /\ Len(dm_b.matrix) = Len(dm_a.matrix)
    /\ \A r \in 1..Len(dm_a.matrix) :
          /\ Len(dm_b.matrix[r]) = Len(dm_a.matrix[r])
          /\ \A c \in 1..Len(dm_a.matrix[r]) :
                dm_b.matrix[r][c] = FAdd(dm_a.matrix[r][c], IntF(k))

\* The last call was dm_a.rms_deviation(dm_b) without a threshold, dm_a has
\* a cell and dm_b is dm_a >> k.
RmsOfShift(k) ==
    /\ dm_call.op = "rms_deviation"
    /\ dm_call.distance_threshold = NoThreshold
    /\ flattened(dm_a) # <<>>
    /\ IsShiftOf(k)

ShiftIsExact(k) ==
    /\ \A i \in 1..Len(flattened(dm_a)) : ExactAdd(flattened(dm_a)[i], IntF(k))
    /\ Len(flattened(dm_a)) * k * k < Pow2(PREC)

SameLenAndUnits ==
    /\ DistanceMatrixLen(dm_a) = DistanceMatrixLen(dm_b)
    /\ dm_a.units = dm_b.units

\* C11: rms_deviation(other, distance_threshold=t) with any t that is given,
\* 0 included, takes the root mean square over exactly the flattened pairs
\* with |a - b| < t and fails with ZeroDivisionError when no pair qualifies;
\* only without a threshold are all pairs used.
C11_ThresholdFiltersPairs ==
    (dm_call.op = "rms_deviation" /\ SameLenAndUnits) =>
        LET t       == dm_call.distance_threshold
            Near(d) == FLt(FAbs(d), t)
            kept    == IF t = NoThreshold THEN Differences(dm_a, dm_b)
                       ELSE FilterSeq(Near, Differences(dm_a, dm_b))
        IN  dm_ret = RootMeanSquare(kept)

\* dm_a and dm_b have the same number of rows and the same row lengths.
SameShape ==
    /\ Len(dm_a.matrix) = Len(dm_b.matrix)
    /\ \A r \in 1..Len(dm_a.matrix) :
          Len(dm_a.matrix[r]) = Len(dm_b.matrix[r])

\* C12: rms_deviation and a - b, called on two matrices whose dimensions
\* differ (number of rows or row lengths) or whose units differ, fail with
\* an error instead of returning a value.
C12_MismatchFails ==
    (/\ dm_call.op \in {"rms_deviation", "sub"}
     /\ (~SameShape \/ dm_a.units # dm_b.units)) =>
        ~dm_ret.ok

\* C13: two matrices compare equal if and only if their units start with
\* the same character and their tables are equal (same number of rows, same
\* row lengths, equal cells); a matrix equals itself, never equals itself
\* shifted by a non-zero amount, and never equals a value that is no
\* DistanceMatrix.
C13_EqualIffSameTable ==
    /\ dm_call.op = "eq" =>
          /\ dm_ret.v <=> (/\ FirstChar(dm_a.units) = FirstChar(dm_b.units)
                           /\ dm_a.matrix = dm_b.matrix)
          /\ \A k \in 1..MaxShift : IsShiftOf(k) => dm_ret.v = FALSE
    /\ dm_call.op = "eq_foreign" =>
          dm_ret.v <=> (dm_call.other = "DistanceMatrix")

\* C15: a - b for two matrices of equal shape is a matrix with a's units and
\* shape whose cell (i, j) is a[i][j] - b[i][j]; a - a is all zero, with the
\* shape of a.
C15_DifferenceIsCellwise ==
    /\ (dm_call.op = "sub" /\ SameShape) =>
          /\ dm_ret.ok
          /\ dm_ret.v.units = dm_a.units
          /\ Len(dm_ret.v.matrix) = Len(dm_a.matrix)
          /\ \A r \in 1..Len(dm_a.matrix) :
                /\ Len(dm_ret.v.matrix[r]) = Len(dm_a.matrix[r])
                /\ \A c \in 1..Len(dm_a.matrix[r]) :
                      dm_ret.v.matrix[r][c] =
                          FSub(dm_a.matrix[r][c], dm_b.matrix[r][c])
    /\ dm_call.op = "sub_self" =>
          /\ dm_ret.ok
          /\ dm_ret.v.units = dm_a.units
          /\ Len(dm_ret.v.matrix) = Len(dm_a.matrix)
          /\ \A r \in 1..Len(dm_a.matrix) :
                /\ Len(dm_ret.v.matrix[r]) = Len(dm_a.matrix[r])
                /\ \A c \in 1..Len(dm_a.matrix[r]) :
                      dm_ret.v.matrix[r][c] = FZero

\* a - b has been taken for two different tables of one shape, three cells
\* or more, and units that differ.
C15_Witness ==
    /\ dm_call.op = "sub"
    /\ SameShape
    /\ Len(flattened(dm_a)) >= 3
    /\ dm_a.units # dm_b.units
    /\ \E i \in 1..Len(flattened(dm_a)) : flattened(dm_ret.v)[i] # FZero

\* C22: whenever two matrices with at least one cell each compare equal
\* under ==, a.rms_deviation(b) raises no error and returns 0.
C22_EqualMatricesDeviateByZero ==
    (/\ dm_call.op = "rms_deviation"
     /\ dm_call.distance_threshold = NoThreshold
     /\ flattened(dm_a) # <<>>
     /\ flattened(dm_b) # <<>>
     /\ eq(dm_a, [kind |-> "DistanceMatrix", obj |-> dm_b])) =>
        /\ dm_ret.ok
        /\ dm_ret.v = FZero

(***************************************************************************)
(* integrate: the claims                                                   *)
(***************************************************************************)
RECURSIVE MidpointSum(_, _, _)
\* The sum of ((ys[i] + ys[i+1]) / 2) * (xs[i+1] - xs[i]) over the first n
\* intervals, added in order from 0.
MidpointSum(xs, ys, n) ==
    IF n = 0 THEN FZero
    ELSE FAdd(MidpointSum(xs, ys, n - 1),
              FMul(FDiv(FAdd(ys[n], ys[n + 1]), IntF(2)), FSub(xs[n + 1], xs[n])))

\* s with its last item replaced by v.
WithLast(s, v) == [s EXCEPT ![Len(s)] = v]

\* C20: integrate(xs, ys) fails unless len(xs) = len(ys); otherwise it
\* returns the sum of ((ys[i] + ys[i+1]) / 2) * (xs[i+1] - xs[i]) over
\* i = 0 .. len-3: 0 for arrays of length 0, 1 or 2, and the same value
\* whatever the last x and the last y are.
C20_IntegrateSkipsLastInterval ==
    int_call.op = "integrate" =>
        LET xs == int_call.x_array
            ys == int_call.y_array
        IN  IF Len(xs) # Len(ys) THEN ~int_ret.ok
            ELSE /\ int_ret.ok
                 /\ int_ret.v = MidpointSum(xs, ys, IF Len(xs) < 2 THEN 0
                                                    ELSE Len(xs) - 2)
                 /\ Len(xs) <= 2 => int_ret.v = FZero
                 /\ Len(xs) >= 1 =>
                       /\ \A v \in XVals : integrate(WithLast(xs, v), ys) = int_ret
                       /\ \A v \in YVals : integrate(xs, WithLast(ys, v)) = int_ret

\* integrate has returned a non-zero sum for arrays of four points whose
\* last interval is not empty.
C20_Witness ==
    /\ int_call.op = "integrate"
    /\ Len(int_call.x_array) = 4
    /\ int_ret.ok
    /\ int_ret.v # FZero
    /\ int_call.x_array[4] # int_call.x_array[3]

(***************************************************************************)
(* The specifications                                                      *)
(***************************************************************************)
InitCsv ==
    /\ csv_call = [op |-> "none"]
    /\ csv_ret = <<>>

InitDM ==
    /\ dm_a = NoObject
    /\ dm_b = NoObject
    /\ dm_call = [op |-> "none"]
    /\ dm_ret = <<>>

Init == InitSp /\ InitPA /\ InitFL /\ InitCsv /\ InitDM /\ InitInt

SpecSp == Init /\ [][NextSp]_vars

SpecPA == Init /\ [][NextPA]_vars

\* __init__ runs `while not self.done: self.make_peaks()` to its end: a turn
\* of the loop that can be taken is taken.  The steps that count a turn are
\* the PAMakePeaks steps.
SpecPAFair == Init /\ [][NextPA]_vars /\ WF_pa_turns(LoopTurn)

SpecLog == Init /\ [][NextFL]_vars

SpecCsv == Init /\ [][NextCsv]_vars

SpecDM == Init /\ [][NextDM]_vars

SpecInt == Init /\ [][NextInt]_vars

=============================================================================
